---- MODULE Spec2Model ----
(***************************************************************************)
(* A model of VirtualScrollOptimized (src/core/VirtualScrollOptimized.ts): *)
(* the windowing engine that keeps a visible range of item indices for a   *)
(* scroll offset, with a velocity-dependent overscan and a scroll-end      *)
(* timer; and of VirtualScrollCore with the functions of core/utils.ts:   *)
(* the traditional engine, whose onScroll is throttled.                    *)
(*                                                                         *)
(* Numbers are integers: one unit is one pixel, time is in milliseconds.   *)
(* The scroll velocity is the exact rational num/den (pixels per second),  *)
(* kept in lowest terms.                                                   *)
(***************************************************************************)
EXTENDS Integers, Sequences, FiniteSets, TLC

\* ------------------------------------------------------------------ bounds

MaxItemCount == 3
MaxScrollOffset == 5
MaxTicks == 1
MaxCoreTicks == 2
ExampleItemCount == 16

\* ------------------------------------------------------- program constants

ScrollEndDelay == 150
MaxVelocityFactor == 3
MsPerSecond == 1000
StartTime == 1000
ThrottleWait == 16
CoreTickStep == ThrottleWait \div 2

\* ------------------------------------------------------------- input sets

\* itemHeight: number | ((index) => number).  fn = FALSE is the number
\* `base`; fn = TRUE is the function  index => base + (index % 2) * step.
FixedHeight(n) == [fn |-> FALSE, base |-> n, step |-> 0]
ItemHeights == { FixedHeight(1), [fn |-> TRUE, base |-> 1, step |-> 2] }

ItemCounts == {0, 1, MaxItemCount}
ContainerHeights == {1, 3}
\* << overscanCount, minOverscan, maxOverscan >>
OverscanSettings == { <<1, 1, 2>>, <<0, 1, 1>> }
VelocityThresholds == {20}
ScrollOffsets == {2, MaxScrollOffset}
Indices == {-1, MaxItemCount - 1}
Aligns == {"start", "center", "end"}
Callbacks == {"c1"}

NoCallback == "undefined"
NoTimer == 0

OptionsSet ==
  { [ itemCount |-> n, itemHeight |-> h, containerHeight |-> c,
      overscanCount |-> o[1], minOverscan |-> o[2], maxOverscan |-> o[3],
      scrollVelocityThreshold |-> t ] :
    n \in ItemCounts, h \in ItemHeights, c \in ContainerHeights,
    o \in OverscanSettings, t \in VelocityThresholds }

\* ------------------------------------------------------------------ state

VARIABLES
  options,           \* this.options
  state,             \* this.state
  itemPositionCache, \* this.itemPositionCache: a function index -> position
  lastScrollTime,    \* this.lastScrollTime
  lastScrollOffset,  \* this.lastScrollOffset
  scrollEndTimer,    \* this.scrollEndTimer: a timer handle, or NoTimer (null)
  updateCallback,    \* this.updateCallback, or NoCallback
  now,               \* Date.now()
  pendingTimers,     \* the host's timers set by window.setTimeout, not yet run
  notified,          \* the notifications the last operation delivered
  destroyed,         \* history: destroy() has been called
  detached           \* history: the callback the last destroy() detached

\* VirtualScrollCore, and the closure of throttle() it holds as scrollHandler.
VARIABLES
  coreOptions,          \* this.options
  coreState,            \* this.state
  coreUpdateCallback,   \* this.updateCallback, or NoCallback
  throttleTimeout,      \* throttle's `timeout`: a timer handle, or NoTimer
  throttleLastCallTime, \* throttle's `lastCallTime`
  coreTimers,           \* the host's timers set by throttle, not yet run
  coreNotified          \* the notifications the last operation delivered

\* A client of VirtualScrollOptimized.
VARIABLES
  snapshot,   \* the state object the client holds: << >>, or one record
              \* [live, state], live when it is the engine's own this.state
  replaced    \* history: the callback the last onUpdate() overwrote

\* The variables of VirtualScrollOptimized but the clock, those of
\* VirtualScrollCore, and those of the client.
engineVars == << options, state, itemPositionCache, lastScrollTime,
                 lastScrollOffset, scrollEndTimer, updateCallback,
                 pendingTimers, notified, destroyed, detached >>
coreVars == << coreOptions, coreState, coreUpdateCallback, throttleTimeout,
               throttleLastCallTime, coreTimers, coreNotified >>

clientVars == << snapshot, replaced >>
othersVars == << coreVars, clientVars >>

vars == << options, state, itemPositionCache, lastScrollTime, lastScrollOffset,
           scrollEndTimer, updateCallback, now, pendingTimers,
           notified, destroyed, detached, coreVars, clientVars >>

\* ---------------------------------------------------------------- helpers

Max(a, b) == IF a >= b THEN a ELSE b
Min(a, b) == IF a <= b THEN a ELSE b
Abs(a) == IF a < 0 THEN -a ELSE a

RECURSIVE Gcd(_, _)
Gcd(a, b) == IF b = 0 THEN a ELSE Gcd(b, a % b)

\* The rational n/d (d > 0, n >= 0) in lowest terms.
Rational(n, d) == LET g == Gcd(n, d) IN [num |-> n \div g, den |-> d \div g]
ZeroVelocity == [num |-> 0, den |-> 1]

\* Math.round(n/d) for n >= 0, d > 0: halves round up.
Round(n, d) == (2 * n + d) \div (2 * d)

\* Map.get: the entry, or no entry (undefined).
Has(cache, index) == index \in DOMAIN cache
\* Map.set
MapSet(cache, index, position) ==
  [k \in DOMAIN cache \cup {index} |-> IF k = index THEN position ELSE cache[k]]

\* ------------------------------------------------- the engine's functions

getItemHeight(opts, index) ==
  IF opts.itemHeight.fn
    THEN opts.itemHeight.base + (index % 2) * opts.itemHeight.step
    ELSE opts.itemHeight.base

\* The loop of calculateItemPositions from index i with running offset.
RECURSIVE PositionsLoop(_, _, _, _)
PositionsLoop(cache, opts, i, offset) ==
  IF i < opts.itemCount
    THEN LET size == getItemHeight(opts, i)
         IN PositionsLoop(MapSet(cache, i, [offset |-> offset, size |-> size]),
                          opts, i + 1, offset + size)
    ELSE cache

calculateItemPositions(cache, opts) == PositionsLoop(cache, opts, 0, 0)

\* The while loop of findStartIndex with an item taken to hold the offset
\* at which it ends.
RECURSIVE SearchLoopEndInclusive(_, _, _, _)
SearchLoopEndInclusive(cache, low, high, scrollOffset) ==
  IF low <= high
    THEN LET mid == (low + high) \div 2
             position == cache[mid]
         IN IF position.offset <= scrollOffset
               /\ position.offset + position.size >= scrollOffset
              THEN mid
              ELSE IF position.offset > scrollOffset
                     THEN SearchLoopEndInclusive(cache, low, mid - 1, scrollOffset)
                     ELSE SearchLoopEndInclusive(cache, mid + 1, high, scrollOffset)
    ELSE Max(0, low - 1)

\* The while loop of findStartIndex.
RECURSIVE SearchLoop(_, _, _, _)
SearchLoop(cache, low, high, scrollOffset) ==
  IF low <= high
    THEN LET mid == (low + high) \div 2
             position == cache[mid]
         IN IF position.offset <= scrollOffset
               /\ position.offset + position.size > scrollOffset
              THEN mid
              ELSE IF position.offset > scrollOffset
                     THEN SearchLoop(cache, low, mid - 1, scrollOffset)
                     ELSE SearchLoop(cache, mid + 1, high, scrollOffset)
    ELSE Max(0, low - 1)

findStartIndex(cache, opts, scrollOffset) ==
  SearchLoop(cache, 0, opts.itemCount - 1, scrollOffset)

\* calculateVelocity that starts from 0 again when no time has passed.
calculateVelocityRestarts(scrollOffset, clock, st, lastTime, lastOffset) ==
  LET timeDelta == clock - lastTime
  IN IF timeDelta = 0
       THEN [velocity |-> ZeroVelocity,
             lastScrollTime |-> lastTime, lastScrollOffset |-> lastOffset]
       ELSE [velocity |-> Rational(Abs(scrollOffset - lastOffset) * MsPerSecond,
                                   timeDelta),
             lastScrollTime |-> clock, lastScrollOffset |-> scrollOffset]

\* calculateVelocity reads the clock and this.lastScroll*, and returns the
\* velocity with the new values of lastScrollTime and lastScrollOffset.
calculateVelocity(scrollOffset, clock, st, lastTime, lastOffset) ==
  LET timeDelta == clock - lastTime
  IN IF timeDelta = 0
       THEN [velocity |-> st.scrollVelocity,
             lastScrollTime |-> lastTime, lastScrollOffset |-> lastOffset]
       ELSE [velocity |-> Rational(Abs(scrollOffset - lastOffset) * MsPerSecond,
                                   timeDelta),
             lastScrollTime |-> clock, lastScrollOffset |-> scrollOffset]

\* velocityFactor = min(velocity / threshold, 3);
\* round(overscanCount * (1 + velocityFactor)), clamped.
\* calculateDynamicOverscan with Math.floor in the place of Math.round.
calculateDynamicOverscanFloors(velocity, opts) ==
  LET unit == velocity.den * opts.scrollVelocityThreshold
      factorNum == Min(velocity.num, MaxVelocityFactor * unit)
      dynamicOverscan == (opts.overscanCount * (unit + factorNum)) \div unit
  IN Max(opts.minOverscan, Min(opts.maxOverscan, dynamicOverscan))

\* calculateDynamicOverscan without the clamp to [minOverscan, maxOverscan].
calculateDynamicOverscanUnclamped(velocity, opts) ==
  LET unit == velocity.den * opts.scrollVelocityThreshold
      factorNum == Min(velocity.num, MaxVelocityFactor * unit)
  IN Round(opts.overscanCount * (unit + factorNum), unit)

calculateDynamicOverscan(velocity, opts) ==
  LET unit == velocity.den * opts.scrollVelocityThreshold
      factorNum == Min(velocity.num, MaxVelocityFactor * unit)
      dynamicOverscan == Round(opts.overscanCount * (unit + factorNum), unit)
  IN Max(opts.minOverscan, Min(opts.maxOverscan, dynamicOverscan))

\* The for loop of updateVisibleRange: the items counted from index i on.
RECURSIVE VisibleLoop(_, _, _, _)
VisibleLoop(cache, opts, scrollOffset, i) ==
  IF i < opts.itemCount
    THEN IF cache[i].offset - scrollOffset >= opts.containerHeight
           THEN 0
           ELSE 1 + VisibleLoop(cache, opts, scrollOffset, i + 1)
    ELSE 0

\* The reads `this.itemPositionCache.get(i)!.offset` throw a TypeError when
\* the cache has no entry i.  SearchLoopThrows: the while loop of
\* findStartIndex reaches such a read.
RECURSIVE SearchLoopThrows(_, _, _, _)
SearchLoopThrows(cache, low, high, scrollOffset) ==
  IF low <= high
    THEN LET mid == (low + high) \div 2
         IN IF ~Has(cache, mid)
              THEN TRUE
              ELSE IF cache[mid].offset <= scrollOffset
                      /\ cache[mid].offset + cache[mid].size > scrollOffset
                     THEN FALSE
                     ELSE IF cache[mid].offset > scrollOffset
                            THEN SearchLoopThrows(cache, low, mid - 1, scrollOffset)
                            ELSE SearchLoopThrows(cache, mid + 1, high, scrollOffset)
    ELSE FALSE

\* The for loop of updateVisibleRange that also reads the entry at itemCount.
RECURSIVE VisibleLoopThrowsPastEnd(_, _, _, _)
VisibleLoopThrowsPastEnd(cache, opts, scrollOffset, i) ==
  IF i <= opts.itemCount
    THEN IF ~Has(cache, i)
           THEN TRUE
           ELSE IF cache[i].offset - scrollOffset >= opts.containerHeight
                  THEN FALSE
                  ELSE VisibleLoopThrowsPastEnd(cache, opts, scrollOffset, i + 1)
    ELSE FALSE

\* The for loop of updateVisibleRange from index i reaches such a read.
RECURSIVE VisibleLoopThrows(_, _, _, _)
VisibleLoopThrows(cache, opts, scrollOffset, i) ==
  IF i < opts.itemCount
    THEN IF ~Has(cache, i)
           THEN TRUE
           ELSE IF cache[i].offset - scrollOffset >= opts.containerHeight
                  THEN FALSE
                  ELSE VisibleLoopThrows(cache, opts, scrollOffset, i + 1)
    ELSE FALSE

\* updateVisibleRange throws.
updateVisibleRangeThrows(st, opts, cache) ==
  \/ SearchLoopThrows(cache, 0, opts.itemCount - 1, st.scrollOffset)
  \/ VisibleLoopThrows(cache, opts, st.scrollOffset,
                       findStartIndex(cache, opts, st.scrollOffset))

\* updateVisibleRange with the overscan added to the start instead of taken off.
updateVisibleRangeStartSlip(st, opts, cache) ==
  LET startIndex == findStartIndex(cache, opts, st.scrollOffset)
      overscan == calculateDynamicOverscan(st.scrollVelocity, opts)
      visibleItemCount == VisibleLoop(cache, opts, st.scrollOffset, startIndex)
  IN [st EXCEPT
        !.startIndex = Max(0, startIndex + overscan),
        !.endIndex = Min(opts.itemCount - 1,
                         startIndex + visibleItemCount + overscan),
        !.overscan = overscan]

\* updateVisibleRange with the visible items left out of the end.
updateVisibleRangeNoVisibleCount(st, opts, cache) ==
  LET startIndex == findStartIndex(cache, opts, st.scrollOffset)
      overscan == calculateDynamicOverscan(st.scrollVelocity, opts)
  IN [st EXCEPT
        !.startIndex = Max(0, startIndex - overscan),
        !.endIndex = Min(opts.itemCount - 1, startIndex + overscan),
        !.overscan = overscan]

updateVisibleRange(st, opts, cache) ==
  LET startIndex == findStartIndex(cache, opts, st.scrollOffset)
      overscan == calculateDynamicOverscan(st.scrollVelocity, opts)
      visibleItemCount == VisibleLoop(cache, opts, st.scrollOffset, startIndex)
  IN [st EXCEPT
        !.startIndex = Max(0, startIndex - overscan),
        !.endIndex = Min(opts.itemCount - 1,
                         startIndex + visibleItemCount + overscan),
        !.overscan = overscan]

\* getTotalHeight that reads the last entry of the cache, whatever itemCount is.
getTotalHeightOfCached(opts, cache) ==
  IF Has(cache, Cardinality(DOMAIN cache) - 1)
    THEN cache[Cardinality(DOMAIN cache) - 1].offset
           + cache[Cardinality(DOMAIN cache) - 1].size
    ELSE 0

getTotalHeight(opts, cache) ==
  IF Has(cache, opts.itemCount - 1)
    THEN cache[opts.itemCount - 1].offset + cache[opts.itemCount - 1].size
    ELSE 0

getItemOffset(cache, index) == IF Has(cache, index) THEN cache[index].offset ELSE 0

getItemSize(cache, index) == IF Has(cache, index) THEN cache[index].size ELSE 0

getState == state

\* notifyUpdate: the notifications delivered, given the callback slot.
notifyUpdate(callback, st) ==
  IF callback = NoCallback THEN << >> ELSE << [callback |-> callback, state |-> st] >>

\* window.setTimeout(callback, ScrollEndDelay): the pending timers with a new
\* one added, whose handle (the least free one) is `id`.
TimerIds(pending) == { t.id : t \in pending }
NewTimerId(pending) ==
  CHOOSE id \in 1..(Cardinality(pending) + 1) :
    /\ id \notin TimerIds(pending)
    /\ \A j \in 1..(id - 1) : j \in TimerIds(pending)
setTimeout(pending, id, clock) ==
  pending \cup { [id |-> id, deadline |-> clock + ScrollEndDelay] }

\* clearTimeout
clearTimeout(pending, id) == { t \in pending : t.id # id }

\* ------------------------------------------- the partial options of updates

Undefined(v) == [def |-> FALSE, val |-> v]
Defined(v) == [def |-> TRUE, val |-> v]

NoPartial ==
  [ itemCount |-> Undefined(0), itemHeight |-> Undefined(FixedHeight(1)),
    containerHeight |-> Undefined(0), overscanCount |-> Undefined(0),
    minOverscan |-> Undefined(0), maxOverscan |-> Undefined(0),
    scrollVelocityThreshold |-> Undefined(0) ]

\* Partial<OptimizedOptions>: nothing, one of the options that size the list
\* and the container, the two that size the items, or the overscan settings.
Partials ==
  {NoPartial}
  \cup { [NoPartial EXCEPT !.itemCount = Defined(n)] : n \in ItemCounts }
  \cup { [NoPartial EXCEPT !.itemHeight = Defined(h)] : h \in ItemHeights }
  \cup { [NoPartial EXCEPT !.containerHeight = Defined(c)] : c \in ContainerHeights }
  \cup { [NoPartial EXCEPT !.itemCount = Defined(n), !.itemHeight = Defined(h)] :
           n \in ItemCounts, h \in ItemHeights }
  \cup { [NoPartial EXCEPT !.overscanCount = Defined(o[1]),
                           !.minOverscan = Defined(o[2]),
                           !.maxOverscan = Defined(o[3])] : o \in OverscanSettings }

\* Object.assign(this.options, options)
ObjectAssign(opts, partial) ==
  [f \in DOMAIN opts |-> IF partial[f].def THEN partial[f].val ELSE opts[f]]

\* ---------------------------------------------------------------- actions

EmptyMap == [k \in {} |-> 0]

\* The options the constructor fills in when they are not given.
DefaultOverscanCount == 3
DefaultMinOverscan == 1
DefaultMaxOverscan == 10
DefaultScrollVelocityThreshold == 100

Defaults ==
  [ itemCount |-> 0, itemHeight |-> FixedHeight(1), containerHeight |-> 0,
    overscanCount |-> DefaultOverscanCount, minOverscan |-> DefaultMinOverscan,
    maxOverscan |-> DefaultMaxOverscan,
    scrollVelocityThreshold |-> DefaultScrollVelocityThreshold ]

\* The options given to the constructor: each of OptionsSet, all fields given.
Given(opts) == [f \in DOMAIN opts |-> Defined(opts[f])]

\* The initial state with the range not yet at the first item.
InitialStateOffStart(opts) ==
  [ startIndex |-> 0, endIndex |-> 0, scrollOffset |-> 1,
    scrollVelocity |-> ZeroVelocity, overscan |-> opts.overscanCount,
    isScrolling |-> FALSE ]

InitialState(opts) ==
  [ startIndex |-> 0, endIndex |-> 0, scrollOffset |-> 0,
    scrollVelocity |-> ZeroVelocity, overscan |-> opts.overscanCount,
    isScrolling |-> FALSE ]

\* new VirtualScrollOptimized(given)
Constructor(given) ==
  /\ options = ObjectAssign(Defaults, given)
  /\ itemPositionCache = calculateItemPositions(EmptyMap, options)
  /\ state = updateVisibleRange(InitialState(options), options, itemPositionCache)
  /\ lastScrollTime = 0
  /\ lastScrollOffset = 0
  /\ scrollEndTimer = NoTimer
  /\ updateCallback = NoCallback
  /\ now = StartTime
  /\ pendingTimers = {}
  /\ notified = << >>
  /\ destroyed = FALSE
  /\ detached = NoCallback

\* The state handleScroll(scrollOffset) leaves, called now.
handleScrollState(scrollOffset) ==
  LET sample == calculateVelocity(scrollOffset, now, state, lastScrollTime,
                                  lastScrollOffset)
  IN updateVisibleRange([state EXCEPT !.scrollOffset = scrollOffset,
                                      !.scrollVelocity = sample.velocity,
                                      !.isScrolling = TRUE],
                        options, itemPositionCache)

\* handleScroll that notifies before it recomputes the range.
handleScrollNotifiesEarly(scrollOffset) ==
  LET sample == calculateVelocity(scrollOffset, now, state, lastScrollTime,
                                  lastScrollOffset)
      cleared == IF scrollEndTimer # NoTimer
                   THEN clearTimeout(pendingTimers, scrollEndTimer)
                   ELSE pendingTimers
      id == NewTimerId(cleared)
  IN /\ lastScrollTime' = sample.lastScrollTime
     /\ lastScrollOffset' = sample.lastScrollOffset
     /\ state' = handleScrollState(scrollOffset)
     /\ notified' = notifyUpdate(updateCallback,
                                 [state EXCEPT !.scrollOffset = scrollOffset,
                                               !.scrollVelocity = sample.velocity,
                                               !.isScrolling = TRUE])
     /\ pendingTimers' = setTimeout(cleared, id, now)
     /\ scrollEndTimer' = id
     /\ UNCHANGED << options, itemPositionCache, updateCallback, now,
                     destroyed, detached >>

\* handleScroll that sets no scroll-end timer.
handleScrollNoTimeout(scrollOffset) ==
  LET sample == calculateVelocity(scrollOffset, now, state, lastScrollTime,
                                  lastScrollOffset)
  IN /\ lastScrollTime' = sample.lastScrollTime
     /\ lastScrollOffset' = sample.lastScrollOffset
     /\ state' = handleScrollState(scrollOffset)
     /\ notified' = notifyUpdate(updateCallback, state')
     /\ pendingTimers' = IF scrollEndTimer # NoTimer
                           THEN clearTimeout(pendingTimers, scrollEndTimer)
                           ELSE pendingTimers
     /\ UNCHANGED << options, itemPositionCache, updateCallback, now,
                     destroyed, detached, scrollEndTimer >>

\* handleScroll without the clearTimeout of the timer it holds.
handleScrollNoClear(scrollOffset) ==
  LET sample == calculateVelocity(scrollOffset, now, state, lastScrollTime,
                                  lastScrollOffset)
      id == NewTimerId(pendingTimers)
  IN /\ lastScrollTime' = sample.lastScrollTime
     /\ lastScrollOffset' = sample.lastScrollOffset
     /\ state' = handleScrollState(scrollOffset)
     /\ notified' = notifyUpdate(updateCallback, state')
     /\ pendingTimers' = setTimeout(pendingTimers, id, now)
     /\ scrollEndTimer' = id
     /\ UNCHANGED << options, itemPositionCache, updateCallback, now,
                     destroyed, detached >>

handleScroll(scrollOffset) ==
  LET sample == calculateVelocity(scrollOffset, now, state, lastScrollTime,
                                  lastScrollOffset)
      cleared == IF scrollEndTimer # NoTimer
                   THEN clearTimeout(pendingTimers, scrollEndTimer)
                   ELSE pendingTimers
      id == NewTimerId(cleared)
  IN /\ lastScrollTime' = sample.lastScrollTime
     /\ lastScrollOffset' = sample.lastScrollOffset
     /\ state' = handleScrollState(scrollOffset)
     /\ notified' = notifyUpdate(updateCallback, state')
     /\ pendingTimers' = setTimeout(cleared, id, now)
     /\ scrollEndTimer' = id
     /\ UNCHANGED << options, itemPositionCache, updateCallback, now,
                     destroyed, detached >>

\* The state of a scroll-end callback that leaves isScrolling as it is.
scrollEndStateStillScrolling ==
  updateVisibleRange([state EXCEPT !.scrollVelocity = ZeroVelocity,
                                   !.overscan = options.overscanCount],
                     options, itemPositionCache)

\* The state the callback given to setTimeout leaves.
scrollEndState ==
  updateVisibleRange([state EXCEPT !.scrollVelocity = ZeroVelocity,
                                   !.isScrolling = FALSE,
                                   !.overscan = options.overscanCount],
                     options, itemPositionCache)

\* The host runs the callback handleScroll gave to setTimeout, once the delay
\* has passed.
scrollEndTimeout(timer) ==
  /\ timer \in pendingTimers
  /\ now >= timer.deadline
  /\ pendingTimers' = pendingTimers \ {timer}
  /\ state' = scrollEndState
  /\ notified' = notifyUpdate(updateCallback, state')
  /\ UNCHANGED << options, itemPositionCache, lastScrollTime, lastScrollOffset,
                  scrollEndTimer, updateCallback, now, destroyed, detached >>

TargetOffset(position, align, opts) ==
  IF align = "center"
    THEN position.offset - (opts.containerHeight - position.size) \div 2
    ELSE IF align = "end"
      THEN position.offset - opts.containerHeight + position.size
      ELSE position.offset

\* The value of scrollToIndex without the lower clamp.
scrollToIndexResultNoFloor(index, align) ==
  IF ~Has(itemPositionCache, index)
    THEN state.scrollOffset
    ELSE Min(TargetOffset(itemPositionCache[index], align, options),
             getTotalHeight(options, itemPositionCache) - options.containerHeight)

\* The value scrollToIndex(index, align) returns.
scrollToIndexResult(index, align) ==
  IF ~Has(itemPositionCache, index)
    THEN state.scrollOffset
    ELSE Max(0, Min(TargetOffset(itemPositionCache[index], align, options),
                    getTotalHeight(options, itemPositionCache)
                      - options.containerHeight))

\* The state of scrollToIndex with the range widened by overscanCount.
scrollToIndexStateBaseOverscan(index, align) ==
  IF ~Has(itemPositionCache, index)
    THEN state
    ELSE LET targetOverscan == options.overscanCount
         IN [state EXCEPT
               !.scrollOffset = TargetOffset(itemPositionCache[index], align, options),
               !.startIndex = Max(0, index - targetOverscan),
               !.endIndex = Min(options.itemCount - 1, index + targetOverscan)]

\* The state scrollToIndex(index, align) leaves.
scrollToIndexState(index, align) ==
  IF ~Has(itemPositionCache, index)
    THEN state
    ELSE LET targetOverscan == options.maxOverscan
         IN [state EXCEPT
               !.scrollOffset = TargetOffset(itemPositionCache[index], align, options),
               !.startIndex = Max(0, index - targetOverscan),
               !.endIndex = Min(options.itemCount - 1, index + targetOverscan)]

scrollToIndex(index, align) ==
  /\ state' = scrollToIndexState(index, align)
  /\ notified' = IF Has(itemPositionCache, index)
                   THEN notifyUpdate(updateCallback, state')
                   ELSE << >>
  /\ UNCHANGED << options, itemPositionCache, lastScrollTime, lastScrollOffset,
                  scrollEndTimer, updateCallback, now, pendingTimers,
                  destroyed, detached >>

\* handleScroll(scrollOffset) whose notification makes the callback call
\* scrollToIndex(index, align) once: the state when both have returned.  The
\* inner call runs on the state handleScroll has just assigned, and
\* handleScroll assigns nothing to the state after its notifyUpdate().
reentrantState(scrollOffset, index, align) ==
  LET outer == handleScrollState(scrollOffset)
  IN IF updateCallback = NoCallback \/ ~Has(itemPositionCache, index)
       THEN outer
       ELSE LET targetOverscan == options.maxOverscan
            IN [outer EXCEPT
                  !.scrollOffset = TargetOffset(itemPositionCache[index], align, options),
                  !.startIndex = Max(0, index - targetOverscan),
                  !.endIndex = Min(options.itemCount - 1, index + targetOverscan)]

\* The notifications delivered meanwhile, in order: the one of handleScroll,
\* inside which scrollToIndex delivers its own.
reentrantNotified(scrollOffset, index, align) ==
  IF updateCallback = NoCallback
    THEN << >>
    ELSE notifyUpdate(updateCallback, handleScrollState(scrollOffset))
         \o (IF Has(itemPositionCache, index)
               THEN notifyUpdate(updateCallback,
                                 reentrantState(scrollOffset, index, align))
               ELSE << >>)

\* The timers pending afterwards: handleScroll clears and sets its timer
\* after the notification has returned.
reentrantTimers(scrollOffset, index, align) ==
  LET cleared == IF scrollEndTimer # NoTimer
                   THEN clearTimeout(pendingTimers, scrollEndTimer)
                   ELSE pendingTimers
  IN setTimeout(cleared, NewTimerId(cleared), now)

\* updateOptions that takes the list back to the top when it recalculates.
updateOptionsBackToTop(partial) ==
  LET needsRecalculation == partial.itemCount.def \/ partial.itemHeight.def
  IN /\ options' = ObjectAssign(options, partial)
     /\ IF needsRecalculation
          THEN /\ itemPositionCache' = calculateItemPositions(itemPositionCache, options')
               /\ state' = updateVisibleRange([state EXCEPT !.scrollOffset = 0],
                                              options', itemPositionCache')
               /\ notified' = notifyUpdate(updateCallback, state')
          ELSE /\ notified' = << >>
               /\ UNCHANGED << itemPositionCache, state >>
     /\ UNCHANGED << lastScrollTime, lastScrollOffset, scrollEndTimer,
                     updateCallback, now, pendingTimers, destroyed, detached >>

\* updateOptions that recalculates for a new itemCount only.
updateOptionsCountOnly(partial) ==
  LET needsRecalculation == partial.itemCount.def
  IN /\ options' = ObjectAssign(options, partial)
     /\ IF needsRecalculation
          THEN /\ itemPositionCache' = calculateItemPositions(itemPositionCache, options')
               /\ state' = updateVisibleRange(state, options', itemPositionCache')
               /\ notified' = notifyUpdate(updateCallback, state')
          ELSE /\ notified' = << >>
               /\ UNCHANGED << itemPositionCache, state >>
     /\ UNCHANGED << lastScrollTime, lastScrollOffset, scrollEndTimer,
                     updateCallback, now, pendingTimers, destroyed, detached >>

updateOptions(partial) ==
  LET needsRecalculation == partial.itemCount.def \/ partial.itemHeight.def
  IN /\ options' = ObjectAssign(options, partial)
     /\ IF needsRecalculation
          THEN /\ itemPositionCache' = calculateItemPositions(itemPositionCache, options')
               /\ state' = updateVisibleRange(state, options', itemPositionCache')
               /\ notified' = notifyUpdate(updateCallback, state')
          ELSE /\ notified' = << >>
               /\ UNCHANGED << itemPositionCache, state >>
     /\ UNCHANGED << lastScrollTime, lastScrollOffset, scrollEndTimer,
                     updateCallback, now, pendingTimers, destroyed, detached >>

\* onUpdate that keeps the callback registered first.
onUpdateKeepsFirst(callback) ==
  /\ updateCallback' = IF updateCallback = NoCallback THEN callback
                                                      ELSE updateCallback
  /\ detached' = IF detached = callback THEN NoCallback ELSE detached
  /\ notified' = << >>
  /\ UNCHANGED << options, state, itemPositionCache, lastScrollTime,
                  lastScrollOffset, scrollEndTimer, now, pendingTimers, destroyed >>

onUpdate(callback) ==
  /\ updateCallback' = callback
  /\ detached' = IF detached = callback THEN NoCallback ELSE detached
  /\ notified' = << >>
  /\ UNCHANGED << options, state, itemPositionCache, lastScrollTime,
                  lastScrollOffset, scrollEndTimer, now, pendingTimers, destroyed >>

\* destroy that leaves the callback registered.
destroyKeepsCallback ==
  /\ pendingTimers' = IF scrollEndTimer # NoTimer
                        THEN clearTimeout(pendingTimers, scrollEndTimer)
                        ELSE pendingTimers
  /\ destroyed' = TRUE
  /\ detached' = IF updateCallback # NoCallback THEN updateCallback ELSE detached
  /\ notified' = << >>
  /\ UNCHANGED << options, state, itemPositionCache, lastScrollTime,
                  lastScrollOffset, scrollEndTimer, now, updateCallback >>

destroy ==
  /\ pendingTimers' = IF scrollEndTimer # NoTimer
                        THEN clearTimeout(pendingTimers, scrollEndTimer)
                        ELSE pendingTimers
  /\ updateCallback' = NoCallback
  /\ destroyed' = TRUE
  /\ detached' = IF updateCallback # NoCallback THEN updateCallback ELSE detached
  /\ notified' = << >>
  /\ UNCHANGED << options, state, itemPositionCache, lastScrollTime,
                  lastScrollOffset, scrollEndTimer, now >>

\* Time passes: Date.now() advances by one scroll-end delay.
Tick ==
  /\ now + ScrollEndDelay <= StartTime + MaxTicks * ScrollEndDelay
  /\ now' = now + ScrollEndDelay
  /\ UNCHANGED << options, state, itemPositionCache, lastScrollTime,
                  lastScrollOffset, scrollEndTimer, updateCallback,
                  pendingTimers, notified, destroyed, detached >>

\* --------------------------------------------- the functions of core/utils

\* Map.size
MapSize(cache) == Cardinality(DOMAIN cache)

utils_getItemHeight(index, itemHeight) ==
  IF itemHeight.fn
    THEN itemHeight.base + (index % 2) * itemHeight.step
    ELSE itemHeight.base

\* The loop of calculateItemPositions from index i with running offset: an
\* entry the cache has is kept as it is.
RECURSIVE utils_PositionsLoop(_, _, _, _, _)
utils_PositionsLoop(itemCount, itemHeight, cache, i, offset) ==
  IF i < itemCount
    THEN LET filled ==
               IF ~Has(cache, i)
                 THEN MapSet(cache, i,
                             [index |-> i, offset |-> offset,
                              size |-> utils_getItemHeight(i, itemHeight)])
                 ELSE cache
             position == filled[i]
         IN utils_PositionsLoop(itemCount, itemHeight, filled, i + 1,
                                position.offset + position.size)
    ELSE cache

utils_calculateItemPositions(itemCount, itemHeight, cache) ==
  utils_PositionsLoop(itemCount, itemHeight, cache, 0, 0)

\* The while loop of findStartIndex that returns `left` when no item holds
\* the offset.
RECURSIVE utils_SearchLoopNoStepBack(_, _, _, _)
utils_SearchLoopNoStepBack(itemPositions, left, right, scrollOffset) ==
  IF left <= right
    THEN LET mid == (left + right) \div 2
             position == itemPositions[mid]
         IN IF position.offset <= scrollOffset
               /\ position.offset + position.size > scrollOffset
              THEN mid
              ELSE IF position.offset > scrollOffset
                     THEN utils_SearchLoopNoStepBack(itemPositions, left, mid - 1,
                                                     scrollOffset)
                     ELSE utils_SearchLoopNoStepBack(itemPositions, mid + 1, right,
                                                     scrollOffset)
    ELSE left

\* The while loop of findStartIndex.
RECURSIVE utils_SearchLoop(_, _, _, _)
utils_SearchLoop(itemPositions, left, right, scrollOffset) ==
  IF left <= right
    THEN LET mid == (left + right) \div 2
             position == itemPositions[mid]
         IN IF position.offset <= scrollOffset
               /\ position.offset + position.size > scrollOffset
              THEN mid
              ELSE IF position.offset > scrollOffset
                     THEN utils_SearchLoop(itemPositions, left, mid - 1, scrollOffset)
                     ELSE utils_SearchLoop(itemPositions, mid + 1, right, scrollOffset)
    ELSE Max(0, left - 1)

utils_findStartIndex(scrollOffset, itemPositions) ==
  utils_SearchLoop(itemPositions, 0, MapSize(itemPositions) - 1, scrollOffset)

\* The sum of the sizes getAverageItemHeight divides by itemPositions.size.
RECURSIVE SumOfSizes(_, _)
SumOfSizes(itemPositions, n) ==
  IF n = 0 THEN 0 ELSE itemPositions[n - 1].size + SumOfSizes(itemPositions, n - 1)

\* getAverageItemHeight, as the rational num/den.
getAverageItemHeight(itemPositions) ==
  IF MapSize(itemPositions) = 0
    THEN [num |-> 0, den |-> 1]
    ELSE [num |-> SumOfSizes(itemPositions, MapSize(itemPositions)),
          den |-> MapSize(itemPositions)]

\* The for loop of getVisibleRange from index i: the last index it keeps.
RECURSIVE RangeLoop(_, _, _, _, _, _)
RangeLoop(itemPositions, scrollOffset, containerHeight, buffer, i, end) ==
  IF i < MapSize(itemPositions)
    THEN LET average == getAverageItemHeight(itemPositions)
         IN IF (itemPositions[i].offset - scrollOffset) * average.den
                 > containerHeight * average.den + buffer * average.num
              THEN end
              ELSE RangeLoop(itemPositions, scrollOffset, containerHeight,
                             buffer, i + 1, i)
    ELSE end

\* getVisibleRange without the clamp of the end to the last index.
getVisibleRangeUnclamped(scrollOffset, containerHeight, itemPositions, buffer) ==
  LET startIndex == utils_findStartIndex(scrollOffset, itemPositions)
      start == Max(0, startIndex - buffer)
      end == RangeLoop(itemPositions, scrollOffset, containerHeight, buffer,
                       start, start)
  IN [start |-> start, end |-> end + buffer]

getVisibleRange(scrollOffset, containerHeight, itemPositions, buffer) ==
  LET startIndex == utils_findStartIndex(scrollOffset, itemPositions)
      start == Max(0, startIndex - buffer)
      end == RangeLoop(itemPositions, scrollOffset, containerHeight, buffer,
                       start, start)
  IN [start |-> start, end |-> Min(MapSize(itemPositions) - 1, end + buffer)]

utils_getTotalHeight(itemPositions) ==
  IF MapSize(itemPositions) = 0
    THEN 0
    ELSE itemPositions[MapSize(itemPositions) - 1].offset
           + itemPositions[MapSize(itemPositions) - 1].size

\* ------------------------------------------------------- VirtualScrollCore

DefaultBuffer == 5

Buffers == {0, 1}
CoreOptionsSet ==
  { [ itemCount |-> n, itemHeight |-> h, containerHeight |-> c,
      buffer |-> b, horizontal |-> z ] :
    n \in ItemCounts, h \in ItemHeights, c \in ContainerHeights,
    b \in Buffers, z \in BOOLEAN }

\* ScrollPosition
ScrollPositions ==
  { [scrollTop |-> 0, scrollLeft |-> 0], [scrollTop |-> 2, scrollLeft |-> 0],
    [scrollTop |-> MaxScrollOffset, scrollLeft |-> 2] }

Core_NoPartial ==
  [ itemCount |-> Undefined(0), itemHeight |-> Undefined(FixedHeight(1)),
    containerHeight |-> Undefined(0), buffer |-> Undefined(0),
    horizontal |-> Undefined(FALSE) ]

\* Partial<VirtualScrollOptions>
Core_Partials ==
  {Core_NoPartial}
  \cup { [Core_NoPartial EXCEPT !.itemCount = Defined(n)] : n \in ItemCounts }
  \cup { [Core_NoPartial EXCEPT !.itemHeight = Defined(h)] : h \in ItemHeights }
  \cup { [Core_NoPartial EXCEPT !.containerHeight = Defined(c)] :
           c \in ContainerHeights }
  \cup { [Core_NoPartial EXCEPT !.buffer = Defined(b)] : b \in Buffers }

Core_Defaults ==
  [ itemCount |-> 0, itemHeight |-> FixedHeight(1), containerHeight |-> 0,
    buffer |-> DefaultBuffer, horizontal |-> FALSE ]

Core_InitialState ==
  [ visibleRange |-> [start |-> 0, end |-> 0], scrollOffset |-> 0,
    totalHeight |-> 0, itemPositions |-> EmptyMap ]

Core_updateVisibleRange(st, opts) ==
  [st EXCEPT !.visibleRange =
     getVisibleRange(st.scrollOffset, opts.containerHeight, st.itemPositions,
                     opts.buffer)]

Core_initialize(st, opts) ==
  LET itemPositions ==
        utils_calculateItemPositions(opts.itemCount, opts.itemHeight,
                                     st.itemPositions)
  IN Core_updateVisibleRange(
       [st EXCEPT !.itemPositions = itemPositions,
                  !.totalHeight = utils_getTotalHeight(itemPositions)],
       opts)

Core_getState == coreState

Core_notifyUpdate(callback, st) ==
  IF callback # NoCallback THEN << [callback |-> callback, state |-> st] >> ELSE << >>

\* new VirtualScrollCore(given)
Core_Constructor(given) ==
  /\ coreOptions = ObjectAssign(Core_Defaults, given)
  /\ coreState = Core_initialize(Core_InitialState, coreOptions)
  /\ coreUpdateCallback = NoCallback
  /\ throttleTimeout = NoTimer
  /\ throttleLastCallTime = 0
  /\ coreTimers = {}
  /\ coreNotified = << >>

\* The private handleScroll(position), which the throttle calls.
Core_handleScroll(position) ==
  LET offset == IF coreOptions.horizontal THEN position.scrollLeft
                                          ELSE position.scrollTop
  IN IF Abs(offset - coreState.scrollOffset) < 1
       THEN /\ coreNotified' = << >>
            /\ UNCHANGED coreState
       ELSE /\ coreState' = Core_updateVisibleRange(
                              [coreState EXCEPT !.scrollOffset = offset],
                              coreOptions)
            /\ coreNotified' = Core_notifyUpdate(coreUpdateCallback, coreState')

\* onScroll without the throttle: handleScroll runs on every call.
Core_onScrollUnthrottled(position) ==
  /\ throttleLastCallTime' = now
  /\ Core_handleScroll(position)
  /\ UNCHANGED << coreOptions, coreUpdateCallback, now, throttleTimeout,
                  coreTimers >>

\* onScroll(position): the function throttle(handleScroll, 16) returned.
Core_onScroll(position) ==
  LET remaining == ThrottleWait - (now - throttleLastCallTime)
  IN /\ IF remaining <= 0 \/ remaining > ThrottleWait
          THEN /\ coreTimers' = IF throttleTimeout # NoTimer
                                  THEN clearTimeout(coreTimers, throttleTimeout)
                                  ELSE coreTimers
               /\ throttleTimeout' = NoTimer
               /\ throttleLastCallTime' = now
               /\ Core_handleScroll(position)
          ELSE IF throttleTimeout = NoTimer
                 THEN /\ throttleTimeout' = NewTimerId(coreTimers)
                      /\ coreTimers' =
                           coreTimers \cup { [id |-> throttleTimeout',
                                              deadline |-> now + remaining,
                                              args |-> position] }
                      /\ coreNotified' = << >>
                      /\ UNCHANGED << coreState, throttleLastCallTime >>
                 ELSE /\ coreNotified' = << >>
                      /\ UNCHANGED << coreState, throttleLastCallTime,
                                      throttleTimeout, coreTimers >>
     /\ UNCHANGED << coreOptions, coreUpdateCallback, now >>

\* The host runs the callback throttle gave to setTimeout.
throttleTimeoutCallback(timer) ==
  /\ timer \in coreTimers
  /\ now >= timer.deadline
  /\ coreTimers' = coreTimers \ {timer}
  /\ throttleLastCallTime' = now
  /\ throttleTimeout' = NoTimer
  /\ Core_handleScroll(timer.args)
  /\ UNCHANGED << coreOptions, coreUpdateCallback, now >>

Core_onUpdate(callback) ==
  /\ coreUpdateCallback' = callback
  /\ coreNotified' = << >>
  /\ UNCHANGED << coreOptions, coreState, throttleTimeout, throttleLastCallTime,
                  coreTimers, now >>

Core_updateOptions(partial) ==
  LET shouldReinitialize == \/ partial.itemCount.def
                            \/ partial.itemHeight.def
                            \/ partial.containerHeight.def
  IN /\ coreOptions' = ObjectAssign(coreOptions, partial)
     /\ IF shouldReinitialize
          THEN /\ coreState' = Core_initialize(coreState, coreOptions')
               /\ coreNotified' = Core_notifyUpdate(coreUpdateCallback, coreState')
          ELSE /\ coreNotified' = << >>
               /\ UNCHANGED coreState
     /\ UNCHANGED << coreUpdateCallback, throttleTimeout, throttleLastCallTime,
                     coreTimers, now >>

\* The value VirtualScrollCore.scrollToIndex(index, align) returns.
Core_scrollToIndex(st, opts, index, align) ==
  IF ~Has(st.itemPositions, index)
    THEN st.scrollOffset
    ELSE Max(0, Min(TargetOffset(st.itemPositions[index], align, opts),
                    st.totalHeight - opts.containerHeight))

Core_destroy ==
  /\ coreUpdateCallback' = NoCallback
  /\ coreNotified' = << >>
  /\ UNCHANGED << coreOptions, coreState, throttleTimeout, throttleLastCallTime,
                  coreTimers, now >>

\* Time passes: Date.now() advances by half the throttle's wait.
Core_Tick ==
  /\ now + CoreTickStep <= StartTime + MaxCoreTicks * CoreTickStep
  /\ now' = now + CoreTickStep
  /\ UNCHANGED coreVars

\* ------------------------------------------------------ the specifications

\* The engine that stands by while the other one is exercised.
StandbyOptions ==
  [ itemCount |-> 0, itemHeight |-> FixedHeight(1), containerHeight |-> 1,
    overscanCount |-> 1, minOverscan |-> 1, maxOverscan |-> 2,
    scrollVelocityThreshold |-> 20 ]
StandbyCoreOptions ==
  [ itemCount |-> 0, itemHeight |-> FixedHeight(1), containerHeight |-> 1,
    buffer |-> 0, horizontal |-> FALSE ]

\* No client: nothing held, nothing registered before.
NoSnapshot == << >>
NoClient ==
  /\ snapshot = NoSnapshot
  /\ replaced = NoCallback

Init ==
  /\ \E opts \in OptionsSet : Constructor(Given(opts))
  /\ Core_Constructor(Given(StandbyCoreOptions))
  /\ NoClient

Next ==
  \/ \E scrollOffset \in ScrollOffsets :
       handleScroll(scrollOffset) /\ UNCHANGED othersVars
  \/ \E timer \in pendingTimers : scrollEndTimeout(timer) /\ UNCHANGED othersVars
  \/ \E index \in Indices, align \in Aligns :
       scrollToIndex(index, align) /\ UNCHANGED othersVars
  \/ \E partial \in Partials : updateOptions(partial) /\ UNCHANGED othersVars
  \/ \E callback \in Callbacks : onUpdate(callback) /\ UNCHANGED othersVars
  \/ destroy /\ UNCHANGED othersVars
  \/ Tick /\ UNCHANGED othersVars

Spec == Init /\ [][Next]_vars

standbyVars == << engineVars, clientVars >>

CoreInit ==
  /\ Constructor(Given(StandbyOptions))
  /\ \E opts \in CoreOptionsSet : Core_Constructor(Given(opts))
  /\ NoClient

CoreNext ==
  \/ \E position \in ScrollPositions :
       Core_onScroll(position) /\ UNCHANGED standbyVars
  \/ \E timer \in coreTimers : throttleTimeoutCallback(timer) /\ UNCHANGED standbyVars
  \/ \E partial \in Core_Partials :
       Core_updateOptions(partial) /\ UNCHANGED standbyVars
  \/ \E callback \in Callbacks : Core_onUpdate(callback) /\ UNCHANGED standbyVars
  \/ Core_destroy /\ UNCHANGED standbyVars
  \/ Core_Tick /\ UNCHANGED standbyVars

SpecCore == CoreInit /\ [][CoreNext]_vars

\* ------------------------------------------ the engine with its client
\* One list, several overscan settings, two callbacks to register, and a
\* clock that runs long enough for every scroll-end timer to come due.

MaxClientTicks == 2
ClientEndTime == StartTime + MaxClientTicks * ScrollEndDelay
ClientCallbacks == {"c1", "c2"}
ClientOverscanSettings ==
  { <<0, 1, 1>>, <<1, 0, 3>>, <<2, 1, 3>>, <<3, 2, 2>> }
ClientOptionsSet ==
  { [ itemCount |-> MaxItemCount,
      itemHeight |-> [fn |-> TRUE, base |-> 1, step |-> 2],
      containerHeight |-> 1,
      overscanCount |-> o[1], minOverscan |-> o[2], maxOverscan |-> o[3],
      scrollVelocityThreshold |-> t ] :
    o \in ClientOverscanSettings, t \in VelocityThresholds }
ClientPartials ==
  { [NoPartial EXCEPT !.itemCount = Defined(n)] : n \in ItemCounts }

\* Time passes: Date.now() advances by one scroll-end delay.
TimePasses ==
  /\ now + ScrollEndDelay <= ClientEndTime
  /\ now' = now + ScrollEndDelay
  /\ UNCHANGED << engineVars, othersVars >>

\* The host runs a scroll-end callback that has come due.
ScrollEnds ==
  \E timer \in pendingTimers : scrollEndTimeout(timer) /\ UNCHANGED othersVars

ClientInit ==
  /\ \E opts \in ClientOptionsSet : Constructor(Given(opts))
  /\ Core_Constructor(Given(StandbyCoreOptions))
  /\ NoClient

ClientNext ==
  \/ \E scrollOffset \in ScrollOffsets :
       /\ now + ScrollEndDelay <= ClientEndTime
       /\ handleScroll(scrollOffset)
       /\ UNCHANGED othersVars
  \/ ScrollEnds
  \/ \E index \in Indices :
       scrollToIndex(index, "start") /\ UNCHANGED othersVars
  \/ \E partial \in ClientPartials : updateOptions(partial) /\ UNCHANGED othersVars
  \/ \E callback \in ClientCallbacks :
       /\ onUpdate(callback)
       /\ replaced' = updateCallback
       /\ UNCHANGED << coreVars, snapshot >>
  \/ destroy /\ UNCHANGED othersVars
  \/ TimePasses

SpecClient == ClientInit /\ [][ClientNext]_vars

\* The host lets time pass and runs the timers that have come due.
SpecLive == SpecClient /\ WF_vars(TimePasses) /\ WF_vars(ScrollEnds)

\* ------------------------------------- the engine and a state object held
\* A state object is a record [live, state]: `state` its fields, `live` true
\* when it is the very object this.state refers to, so that an assignment to
\* one of its fields is an assignment to the engine's state.

\* this.state itself, handed out.
SameObject(st) == [live |-> TRUE, state |-> st]

\* { ...this.state }: a new object with the fields of this.state (all of
\* them numbers or booleans).
SpreadCopy(st) == [live |-> FALSE, state |-> st]

\* this.state = { ... }: the engine refers to a new object from now on.
Reassigned(held) ==
  IF held = NoSnapshot THEN held ELSE << [held[1] EXCEPT !.live = FALSE] >>

SnapshotOptions ==
  [ itemCount |-> MaxItemCount,
    itemHeight |-> [fn |-> TRUE, base |-> 1, step |-> 2],
    containerHeight |-> 1,
    overscanCount |-> 1, minOverscan |-> 1, maxOverscan |-> 2,
    scrollVelocityThreshold |-> 20 ]

\* The assignments the client makes to the object it holds: values no
\* engine state has.
Mutations == { <<"scrollOffset", -1>>, <<"startIndex", MaxItemCount>> }

\* The client calls getState() and keeps what it returns.
GetsState ==
  /\ snapshot' = << SpreadCopy(getState) >>
  /\ UNCHANGED << engineVars, now, coreVars, replaced >>

\* The callback keeps the object notifyUpdate passed to it:
\* this.updateCallback?.(this.getState())
KeepsNotified ==
  /\ notified # << >>
  /\ snapshot' = << SpreadCopy(notified[1].state) >>
  /\ UNCHANGED << engineVars, now, coreVars, replaced >>

\* The client assigns to a field of the object it holds.
Mutates(mutation) ==
  /\ snapshot # NoSnapshot
  /\ snapshot' = << [snapshot[1] EXCEPT !.state[mutation[1]] = mutation[2]] >>
  /\ state' = IF snapshot[1].live
                THEN [state EXCEPT ![mutation[1]] = mutation[2]]
                ELSE state
  /\ UNCHANGED << options, itemPositionCache, lastScrollTime, lastScrollOffset,
                  scrollEndTimer, updateCallback, now, pendingTimers, notified,
                  destroyed, detached, coreVars, replaced >>

SnapshotInit ==
  /\ Constructor(Given(SnapshotOptions))
  /\ Core_Constructor(Given(StandbyCoreOptions))
  /\ NoClient

SnapshotNext ==
  \/ \E scrollOffset \in ScrollOffsets :
       /\ now + ScrollEndDelay <= ClientEndTime
       /\ handleScroll(scrollOffset)
       /\ snapshot' = Reassigned(snapshot)
       /\ UNCHANGED << coreVars, replaced >>
  \/ \E timer \in pendingTimers :
       /\ scrollEndTimeout(timer)
       /\ snapshot' = Reassigned(snapshot)
       /\ UNCHANGED << coreVars, replaced >>
  \/ /\ scrollToIndex(MaxItemCount - 1, "start")
     /\ snapshot' = Reassigned(snapshot)
     /\ UNCHANGED << coreVars, replaced >>
  \/ \E callback \in Callbacks : onUpdate(callback) /\ UNCHANGED othersVars
  \/ GetsState
  \/ KeepsNotified
  \/ \E mutation \in Mutations : Mutates(mutation)
  \/ TimePasses

SpecSnapshot == SnapshotInit /\ [][SnapshotNext]_vars

\* ------------------------------------------------------------- properties

\* The offsets and indices the operations are examined on in every state.
AllOffsets == -1..(MaxScrollOffset + 1)
AllIndices == -1..(MaxItemCount + 1)

Items == 0..(options.itemCount - 1)

\* Item i shows in the viewport [scrollOffset, scrollOffset + containerHeight).
InViewport(i, scrollOffset) ==
  /\ getItemOffset(itemPositionCache, i) < scrollOffset + options.containerHeight
  /\ getItemOffset(itemPositionCache, i) + getItemSize(itemPositionCache, i)
       > scrollOffset

\* C1: in every state the visible range has startIndex >= 0 and
\* endIndex < itemCount, with startIndex <= endIndex when itemCount > 0, for
\* the current itemCount, also after updateOptions has reduced it.
C1_RangeWithinItemCount ==
  /\ state.startIndex >= 0
  /\ state.endIndex < options.itemCount
  /\ options.itemCount > 0 => state.startIndex <= state.endIndex

\* C2: with itemCount > 0, the range handleScroll(offset) leaves contains the
\* index findStartIndex(offset) returns, for every offset in every state.
C2_RangeContainsStartIndex ==
  \A scrollOffset \in AllOffsets :
    options.itemCount > 0 =>
      LET st == handleScrollState(scrollOffset)
          located == findStartIndex(itemPositionCache, options, scrollOffset)
      IN st.startIndex <= located /\ located <= st.endIndex

\* A handleScroll has run and located an item past the first one.
C2_Witness ==
  /\ options.itemCount > 0
  /\ state.isScrolling
  /\ pendingTimers # {}
  /\ state.scrollOffset \in ScrollOffsets
  /\ findStartIndex(itemPositionCache, options, state.scrollOffset) > 0
  /\ state.startIndex <= findStartIndex(itemPositionCache, options, state.scrollOffset)
  /\ findStartIndex(itemPositionCache, options, state.scrollOffset) <= state.endIndex

\* C3: the range handleScroll(offset) leaves holds every item whose extent
\* meets the viewport [offset, offset + containerHeight).
C3_ViewportItemsInRange ==
  \A scrollOffset \in AllOffsets :
    LET st == handleScrollState(scrollOffset)
    IN \A i \in Items :
         InViewport(i, scrollOffset) => st.startIndex <= i /\ i <= st.endIndex

\* A handleScroll has run to an offset where two items show, both in range.
C3_Witness ==
  /\ state.isScrolling
  /\ pendingTimers # {}
  /\ state.scrollOffset \in ScrollOffsets
  /\ \E i \in Items, j \in Items :
       /\ i < j
       /\ InViewport(i, state.scrollOffset) /\ InViewport(j, state.scrollOffset)
       /\ state.startIndex <= i /\ j <= state.endIndex

\* C4: the scroll-end timer, when it fires, leaves isScrolling false,
\* scrollVelocity 0 and overscan equal to the option overscanCount, whatever
\* overscanCount, minOverscan and maxOverscan are.
C4_ScrollEndResetsToBase ==
  [][ \A timer \in pendingTimers :
        scrollEndTimeout(timer) =>
          /\ ~state'.isScrolling
          /\ state'.scrollVelocity = ZeroVelocity
          /\ state'.overscan = options'.overscanCount ]_vars

\* C5: at most one scroll-end timer is pending; it is the one the engine
\* holds, and it is due one delay after the last handleScroll.
C5_OneTimerPending ==
  /\ Cardinality(pendingTimers) <= 1
  /\ \A timer \in pendingTimers :
       /\ timer.id = scrollEndTimer
       /\ timer.deadline = lastScrollTime + ScrollEndDelay

\* Two handleScroll calls in one millisecond, and one timer pending.
C5_Witness ==
  /\ Cardinality(pendingTimers) = 1
  /\ state.isScrolling
  /\ lastScrollTime = now
  /\ lastScrollOffset \in ScrollOffsets
  /\ state.scrollOffset \in ScrollOffsets
  /\ lastScrollOffset # state.scrollOffset

\* C6: once destroy() has been called, the scroll-end timer callback never
\* runs again, whatever is called afterwards.
C6_NoScrollEndAfterDestroy ==
  [][ destroyed => \A timer \in pendingTimers : ~scrollEndTimeout(timer) ]_vars

\* C7: the callback destroy() detached is not invoked again, by operations
\* called later or by a timer that was pending.
C7_DetachedCallbackNotInvoked ==
  \A k \in 1..Len(notified) : notified[k].callback # detached

\* A callback was detached by destroy(), and a handleScroll has run since.
C7_Witness ==
  /\ destroyed
  /\ detached \in Callbacks
  /\ state.isScrolling
  /\ pendingTimers # {}
  /\ notified = << >>

\* C8: after destroy() the operations change nothing: getState() keeps its
\* value and no scroll-end timer is scheduled.
C8_NoOpAfterDestroy ==
  [][ destroyed => getState' = getState /\ pendingTimers' = {} ]_vars

\* C9: every updateOptions(partial) recomputes the visible range for the
\* current scrollOffset and invokes the registered callback.
C9_UpdateOptionsRecomputesAndNotifies ==
  [][ \A partial \in Partials :
        updateOptions(partial) =>
          /\ state' = updateVisibleRange(state, options', itemPositionCache')
          /\ updateCallback # NoCallback => notified' # << >> ]_vars

\* C10: getItemOffset(0) = 0, each later item below itemCount starts where
\* the one before it ends, and each size is the current itemHeight there.
C10_OffsetsArePrefixSums ==
  /\ getItemOffset(itemPositionCache, 0) = 0
  /\ \A i \in Items :
       /\ getItemSize(itemPositionCache, i) = getItemHeight(options, i)
       /\ i > 0 => getItemOffset(itemPositionCache, i)
                     = getItemOffset(itemPositionCache, i - 1)
                       + getItemSize(itemPositionCache, i - 1)

\* updateOptions has shrunk the list and changed itemHeight: the entry past
\* itemCount is left from before, the entries below it are rebuilt.
C10_Witness ==
  /\ options.itemCount = 1
  /\ Has(itemPositionCache, 1)
  /\ getItemSize(itemPositionCache, 1) # getItemHeight(options, 1)
  /\ getItemSize(itemPositionCache, 0) = getItemHeight(options, 0)

\* C11: getTotalHeight() is getItemOffset(N - 1) + getItemSize(N - 1) for the
\* current N = itemCount > 0, and 0 when N = 0, also after updateOptions has
\* grown or shrunk itemCount.
C11_TotalHeightEndsLastItem ==
  IF options.itemCount > 0
    THEN getTotalHeight(options, itemPositionCache)
           = getItemOffset(itemPositionCache, options.itemCount - 1)
             + getItemSize(itemPositionCache, options.itemCount - 1)
    ELSE getTotalHeight(options, itemPositionCache) = 0

\* updateOptions has shrunk a list of variable heights to one item: the cache
\* holds more entries than there are items, and the total is the one item's.
C11_Witness ==
  /\ options.itemCount = 1
  /\ MapSize(itemPositionCache) = MaxItemCount
  /\ itemPositionCache[1].size > 1
  /\ getTotalHeight(options, itemPositionCache) = getItemHeight(options, 0)

\* C12: the position index of VirtualScrollCore has exactly itemCount
\* entries, their sizes are the current itemHeight at each index, their
\* offsets the prefix sums of the sizes, and totalHeight the sum of the sizes,
\* also after updateOptions has changed itemCount or itemHeight.
C12_CorePositionsRebuilt ==
  LET positions == Core_getState.itemPositions
  IN /\ MapSize(positions) = coreOptions.itemCount
     /\ \A i \in 0..(coreOptions.itemCount - 1) :
          /\ Has(positions, i)
          /\ positions[i].size = utils_getItemHeight(i, coreOptions.itemHeight)
          /\ positions[i].offset
               = IF i = 0 THEN 0
                          ELSE positions[i - 1].offset + positions[i - 1].size
     /\ Core_getState.totalHeight = SumOfSizes(positions, MapSize(positions))

\* C13: for every item i of the position index, both findStartIndex of the
\* engine and the one of core/utils return i for the offset at which i starts
\* and for the last offset i holds; an offset on the boundary of two items is
\* located in the item that starts there.
C13_LocatesEveryItem ==
  LET positions == utils_calculateItemPositions(options.itemCount,
                                                options.itemHeight, EmptyMap)
  IN \A i \in Items :
       LET first == getItemOffset(itemPositionCache, i)
           last == first + getItemSize(itemPositionCache, i) - 1
       IN /\ findStartIndex(itemPositionCache, options, first) = i
          /\ findStartIndex(itemPositionCache, options, last) = i
          /\ positions[i].offset = first
          /\ utils_findStartIndex(first, positions) = i
          /\ utils_findStartIndex(last, positions) = i

\* handleScroll has landed on the boundary of two items, and the range is
\* the one around the item that starts there.
C13_Witness ==
  /\ options.itemCount = MaxItemCount
  /\ state.isScrolling
  /\ pendingTimers # {}
  /\ state.scrollOffset = getItemOffset(itemPositionCache, 2)
  /\ state.scrollOffset
       = getItemOffset(itemPositionCache, 1) + getItemSize(itemPositionCache, 1)
  /\ findStartIndex(itemPositionCache, options, state.scrollOffset) = 2
  /\ state.endIndex = 2

\* C14: on a non-empty position index, findStartIndex of core/utils returns
\* an index of the index for every offset: 0 for a negative offset, the last
\* index for an offset at or past the total extent.
C14_LocateClampsOffsets ==
  LET positions == Core_getState.itemPositions
      last == MapSize(positions) - 1
  IN MapSize(positions) > 0 =>
       \A scrollOffset \in -2..(utils_getTotalHeight(positions) + 1) :
         LET located == utils_findStartIndex(scrollOffset, positions)
         IN /\ 0 <= located /\ located <= last
            /\ scrollOffset < 0 => located = 0
            /\ scrollOffset >= utils_getTotalHeight(positions) => located = last

\* onScroll has taken the engine past the extent of several items, and the
\* range starts from the last one.
C14_Witness ==
  /\ MapSize(Core_getState.itemPositions) = MaxItemCount
  /\ Core_getState.scrollOffset >= Core_getState.totalHeight
  /\ coreOptions.buffer = 0
  /\ throttleLastCallTime = now
  /\ utils_findStartIndex(Core_getState.scrollOffset, Core_getState.itemPositions)
       = MaxItemCount - 1
  /\ Core_getState.visibleRange.start = MaxItemCount - 1

\* C15: for every index, in range or not, and every alignment, the value
\* scrollToIndex returns is within [0, totalExtent - containerHeight], and is
\* 0 when totalExtent - containerHeight is negative.
C15_ResultWithinScrollRange ==
  \A index \in AllIndices, align \in Aligns :
    LET result == scrollToIndexResult(index, align)
        limit == getTotalHeight(options, itemPositionCache) - options.containerHeight
    IN /\ 0 <= result
       /\ result <= Max(0, limit)

\* C16: for an index below itemCount, scrollToIndex returns the target offset
\* of the alignment (offset for start, offset - (containerHeight - size) / 2
\* for center, offset - containerHeight + size for end) clamped to
\* [0, totalExtent - containerHeight], and VirtualScrollCore built for the
\* same items and container returns the same value.
C16_ResultIsClampedTarget ==
  LET given == [ itemCount |-> options.itemCount,
                 itemHeight |-> options.itemHeight,
                 containerHeight |-> options.containerHeight,
                 buffer |-> DefaultBuffer, horizontal |-> FALSE ]
      core == Core_initialize(Core_InitialState, given)
      limit == getTotalHeight(options, itemPositionCache) - options.containerHeight
  IN \A index \in Items, align \in Aligns :
       LET offset == getItemOffset(itemPositionCache, index)
           size == getItemSize(itemPositionCache, index)
           \* twice the target offset, an integer for every alignment
           target2 == IF align = "start" THEN 2 * offset
                      ELSE IF align = "center"
                        THEN 2 * offset - (options.containerHeight - size)
                        ELSE 2 * (offset - options.containerHeight + size)
           result == scrollToIndexResult(index, align)
       IN /\ 2 * result = Max(0, Min(target2, 2 * limit))
          /\ result = Core_scrollToIndex(core, given, index, align)

\* scrollToIndex has centered the last item of a list longer than the
\* container: the target is past the limit, and the limit is returned.
C16_Witness ==
  /\ options.itemCount = MaxItemCount
  /\ options.itemHeight.fn
  /\ options.containerHeight > 1
  /\ state.scrollOffset
       = TargetOffset(itemPositionCache[MaxItemCount - 1], "center", options)
  /\ state.scrollOffset \notin ScrollOffsets
  /\ state.startIndex = Max(0, MaxItemCount - 1 - options.maxOverscan)
  /\ 0 < scrollToIndexResult(MaxItemCount - 1, "center")
  /\ scrollToIndexResult(MaxItemCount - 1, "center") < state.scrollOffset

\* C17: scrollToIndex(index, align) with an index below itemCount leaves the
\* range [max(0, index - maxOverscan), min(itemCount - 1, index + maxOverscan)],
\* which contains index, and the registered callback has been given the state
\* with that range when it returns.  Where such a call is made, this is also
\* the range a call leaves for every other index below itemCount.
C17_PreExpandsAndNotifies ==
  [][ \A called \in Indices \cap Items, align \in Aligns :
        scrollToIndex(called, align) =>
          /\ state' = scrollToIndexState(called, align)
          /\ updateCallback # NoCallback =>
               notified' = << [callback |-> updateCallback, state |-> state'] >>
          /\ \A index \in Items :
               LET st == scrollToIndexState(index, align)
               IN /\ st.startIndex = Max(0, index - options.maxOverscan)
                  /\ st.endIndex = Min(options.itemCount - 1,
                                       index + options.maxOverscan)
                  /\ st.startIndex <= index /\ index <= st.endIndex
    ]_vars

\* scrollToIndex has taken an idle engine with a callback to the last item of
\* a list of variable heights: the range is the one around it, and notified.
C17_Witness ==
  /\ options.itemCount = MaxItemCount
  /\ options.itemHeight.fn
  /\ ~state.isScrolling
  /\ state.scrollOffset
       = TargetOffset(itemPositionCache[MaxItemCount - 1], "start", options)
  /\ state.scrollOffset \notin ScrollOffsets
  /\ state.startIndex = Max(0, MaxItemCount - 1 - options.maxOverscan)
  /\ state.startIndex > 0
  /\ state.endIndex = MaxItemCount - 1
  /\ notified = << [callback |-> updateCallback, state |-> state] >>

\* C18: scrollToIndex(index, align) with an index below itemCount leaves
\* isScrolling true, whether it was true or false before.
C18_ScrollToIndexEntersScrolling ==
  [][ \A index \in Indices \cap Items, align \in Aligns :
        scrollToIndex(index, align) => state'.isScrolling ]_vars

\* C19: whenever isScrolling is false, scrollVelocity is 0 and overscan is
\* the current option overscanCount.
C19_IdleHasBaseOverscan ==
  ~state.isScrolling =>
    /\ state.scrollVelocity = ZeroVelocity
    /\ state.overscan = options.overscanCount

\* The engine of tests/optimized.test.ts: items of size 50 in a container of
\* 500.  Of its 1000 items the list has the first ExampleItemCount, more than
\* fit in the container with the largest overscan.
ExampleOptions ==
  [ itemCount |-> ExampleItemCount, itemHeight |-> FixedHeight(50), containerHeight |-> 500,
    overscanCount |-> 3, minOverscan |-> 1, maxOverscan |-> 15,
    scrollVelocityThreshold |-> 100 ]

\* The state of an engine just constructed with the options opts.
ConstructedState(opts) ==
  LET given == ObjectAssign(Defaults, Given(opts))
  IN updateVisibleRange(InitialState(given), given,
                        calculateItemPositions(EmptyMap, given))

\* C20: a newly constructed engine has scrollOffset 0, scrollVelocity 0,
\* isScrolling false and startIndex 0, and its endIndex is the number of items
\* that start within the container plus the overscan, kept below itemCount: it
\* covers every item that fits.  This holds of an engine constructed with the
\* options of any reachable state; for items of size 50 in a container of
\* 500, endIndex is within [9, 14].
C20_ConstructedIdleAtZero ==
  /\ \A opts \in {options, ExampleOptions} :
       LET st == ConstructedState(opts)
           cache == calculateItemPositions(EmptyMap, opts)
           fit == { i \in 0..(opts.itemCount - 1) :
                      cache[i].offset < opts.containerHeight }
       IN /\ st.scrollOffset = 0
          /\ st.scrollVelocity = ZeroVelocity
          /\ ~st.isScrolling
          /\ st.startIndex = 0
          /\ st.endIndex = Min(opts.itemCount - 1, Cardinality(fit) + st.overscan)
          /\ \A i \in fit : i <= st.endIndex
          /\ opts = ExampleOptions => st.endIndex \in 9..14
  /\ ExampleOptions.itemCount - 1 > 14

\* An engine just constructed for several items, on which nothing has been
\* called: its range starts at 0 and ends past the first item.
C20_Witness ==
  /\ state = ConstructedState(options)
  /\ options.itemCount = MaxItemCount
  /\ lastScrollTime = 0
  /\ scrollEndTimer = NoTimer
  /\ updateCallback = NoCallback
  /\ ~destroyed
  /\ now = StartTime
  /\ state.startIndex = 0
  /\ state.endIndex > 0

\* C25: handleScroll called in the millisecond of the last velocity sample
\* leaves scrollVelocity as it was, and still moves scrollOffset and the
\* visible range to the new offset, for every offset.
C25_ZeroElapsedKeepsVelocity ==
  now = lastScrollTime =>
    \A scrollOffset \in AllOffsets :
      LET st == handleScrollState(scrollOffset)
          located == findStartIndex(itemPositionCache, options, scrollOffset)
      IN /\ st.scrollVelocity = state.scrollVelocity
         /\ st.scrollOffset = scrollOffset
         /\ st.isScrolling
         /\ st.overscan = calculateDynamicOverscan(state.scrollVelocity, options)
         /\ st.startIndex = Max(0, located - st.overscan)
         /\ options.itemCount > 0 => located <= st.endIndex

\* Two handleScroll calls in one millisecond: the second has moved the offset
\* and kept the velocity the first one measured.
C25_Witness ==
  /\ lastScrollTime = now
  /\ state.isScrolling
  /\ state.scrollVelocity # ZeroVelocity
  /\ state.scrollOffset # lastScrollOffset
  /\ state.scrollOffset \in ScrollOffsets
  /\ pendingTimers # {}
  /\ state = updateVisibleRange(state, options, itemPositionCache)

\* C26: getItemOffset(i) and getItemSize(i) are 0 for every index i outside
\* [0, itemCount) of the current options, also after updateOptions has
\* reduced itemCount.
C26_LookupsOutsideItemsAreZero ==
  \A i \in AllIndices \ Items :
    /\ getItemOffset(itemPositionCache, i) = 0
    /\ getItemSize(itemPositionCache, i) = 0

\* C27: with itemCount = 0 the visible range holds no index, getTotalHeight()
\* is 0, and getItemOffset and getItemSize are 0 for every index.
C27_EmptyListHasDefaults ==
  options.itemCount = 0 =>
    /\ state.startIndex > state.endIndex
    /\ getTotalHeight(options, itemPositionCache) = 0
    /\ \A i \in AllIndices :
         /\ getItemOffset(itemPositionCache, i) = 0
         /\ getItemSize(itemPositionCache, i) = 0

\* C28: no operation throws, in any state: handleScroll at an offset before
\* or beyond the extent, the scroll-end callback at the offset the state
\* holds, updateOptions that changes itemCount; scrollToIndex and the lookups
\* return a number for every index.
C28_NoOperationThrows ==
  /\ \A scrollOffset \in AllOffsets :
       ~updateVisibleRangeThrows([state EXCEPT !.scrollOffset = scrollOffset],
                                 options, itemPositionCache)
  /\ ~updateVisibleRangeThrows(state, options, itemPositionCache)
  /\ \A partial \in { p \in Partials : p.itemCount.def } :
       LET opts == ObjectAssign(options, partial)
       IN ~updateVisibleRangeThrows(state, opts,
                                    calculateItemPositions(itemPositionCache, opts))
  /\ \A index \in AllIndices :
       /\ \A align \in Aligns : scrollToIndexResult(index, align) \in Int
       /\ getItemOffset(itemPositionCache, index) \in Int
       /\ getItemSize(itemPositionCache, index) \in Int

\* updateOptions has shrunk the list, and handleScroll has then run at an
\* offset beyond its extent.
C28_Witness ==
  /\ options.itemCount > 0
  /\ options.itemCount < MapSize(itemPositionCache)
  /\ state.isScrolling
  /\ pendingTimers # {}
  /\ state.scrollOffset > getTotalHeight(options, itemPositionCache)
  /\ state.endIndex = options.itemCount - 1

\* C30: a call of the throttled function that is the first one, or comes at
\* least ThrottleWait after the last execution, runs handleScroll in the call
\* and leaves no deferred execution; a call within ThrottleWait of the last
\* execution runs nothing in the call, and all such calls together leave one
\* deferred execution, due when the window ends.
C30_ThrottleImmediateOrDeferred ==
  [][ \A position \in ScrollPositions :
        Core_onScroll(position) =>
          IF throttleLastCallTime = 0
             \/ now - throttleLastCallTime >= ThrottleWait
            THEN /\ Core_handleScroll(position)
                 /\ throttleLastCallTime' = now
                 /\ coreTimers' = {}
            ELSE /\ coreState' = coreState
                 /\ coreNotified' = << >>
                 /\ throttleLastCallTime' = throttleLastCallTime
                 /\ Cardinality(coreTimers') = 1
                 /\ coreTimers # {} => coreTimers' = coreTimers
                 /\ \A timer \in coreTimers' :
                      timer.deadline = throttleLastCallTime + ThrottleWait
    ]_vars

\* Back-to-back calls on a fresh engine: the first one ran (the offset moved
\* and the callback was told), a later one in the same millisecond is deferred.
C30_Witness ==
  /\ throttleLastCallTime = now
  /\ now = StartTime
  /\ coreState.scrollOffset # 0
  /\ \E timer \in coreTimers :
       /\ timer.deadline = now + ThrottleWait
       /\ timer.args.scrollTop # coreState.scrollOffset

\* a < b, for rationals
RationalLess(a, b) == a.num * b.den < b.num * a.den

\* Velocities from 0 to past the cap of the factor, in half thresholds.
VelocitySamples(opts) ==
  { Rational(k * opts.scrollVelocityThreshold, 2) :
      k \in 0..(2 * MaxVelocityFactor + 1) }

\* C21: for the options of the engine (threshold positive, minOverscan <=
\* maxOverscan) and velocities v1 < v2, the sampled ones and the one the
\* engine has measured, calculateDynamicOverscan(v1) <= calculateDynamicOverscan(v2)
\* and both are within [minOverscan, maxOverscan].
C21_OverscanMonotonicInVelocity ==
  (options.scrollVelocityThreshold > 0 /\ options.minOverscan <= options.maxOverscan) =>
    \A v1, v2 \in VelocitySamples(options) \cup {state.scrollVelocity} :
      RationalLess(v1, v2) =>
        LET o1 == calculateDynamicOverscan(v1, options)
            o2 == calculateDynamicOverscan(v2, options)
        IN /\ o1 <= o2
           /\ o1 \in options.minOverscan..options.maxOverscan
           /\ o2 \in options.minOverscan..options.maxOverscan

\* handleScroll has measured a velocity that is not a sample, and its overscan
\* is larger than the one of velocity 0.
C21_Witness ==
  /\ state.isScrolling
  /\ state.scrollVelocity \notin VelocitySamples(options)
  /\ state.overscan = calculateDynamicOverscan(state.scrollVelocity, options)
  /\ state.overscan > calculateDynamicOverscan(ZeroVelocity, options)

\* C23: onUpdate(c) leaves c in the one slot, whatever was registered before;
\* every operation notifies only the callback in the slot, at most once, and
\* exactly once when it changes the state and the slot is filled.
C23_LastRegistrationWins ==
  [][ /\ \A callback \in ClientCallbacks :
           onUpdate(callback) => updateCallback' = callback
      /\ Len(notified') <= 1
      /\ \A i \in DOMAIN notified' :
           /\ notified'[i].callback = updateCallback
           /\ notified'[i].callback = updateCallback'
      /\ (state' # state /\ updateCallback # NoCallback) => Len(notified') = 1
    ]_vars

\* onUpdate("c1"), then onUpdate("c2"), then handleScroll: "c2" is notified.
C23_Witness ==
  /\ replaced = "c1"
  /\ updateCallback = "c2"
  /\ state.isScrolling
  /\ notified = << [callback |-> "c2", state |-> state] >>

\* C24: the state a notification carries is the one getState() returns when
\* the operation is over; the callback of handleScroll(o) sees scrollOffset o,
\* isScrolling, and the overscan and range computed for o and the new velocity.
C24_NotificationCarriesNewState ==
  [][ /\ \A i \in DOMAIN notified' : notified'[i].state = getState'
      /\ \A scrollOffset \in ScrollOffsets :
           (handleScroll(scrollOffset) /\ updateCallback # NoCallback) =>
             /\ Len(notified') = 1
             /\ LET seen == notified'[1].state
                    located == findStartIndex(itemPositionCache, options,
                                              scrollOffset)
                IN /\ seen.scrollOffset = scrollOffset
                   /\ seen.isScrolling
                   /\ seen.overscan
                        = calculateDynamicOverscan(seen.scrollVelocity, options)
                   /\ seen.startIndex = Max(0, located - seen.overscan)
                   /\ seen = updateVisibleRange(seen, options, itemPositionCache)
    ]_vars

\* handleScroll has told the callback a range that does not start at 0.
C24_Witness ==
  /\ state.isScrolling
  /\ state.scrollOffset \in ScrollOffsets
  /\ state.startIndex > 0
  /\ updateCallback # NoCallback
  /\ notified = << [callback |-> updateCallback, state |-> getState] >>

\* C29: a live engine that is scrolling comes to be idle, the callback told
\* of the idle state, unless it is destroyed first.
C29_ScrollingLeadsToIdle ==
  (state.isScrolling /\ ~destroyed)
    ~> \/ destroyed
       \/ /\ ~state.isScrolling
          /\ updateCallback # NoCallback
               => notified = << [callback |-> updateCallback, state |-> state] >>

\* The scroll-end timer of a live engine has run: idle, and the callback told.
C29_Witness ==
  /\ ~destroyed
  /\ ~state.isScrolling
  /\ scrollEndTimer # NoTimer
  /\ pendingTimers = {}
  /\ now > StartTime
  /\ updateCallback # NoCallback
  /\ notified = << [callback |-> updateCallback, state |-> state] >>

\* C22: an assignment to a field of a state object that getState() returned,
\* or that the callback was passed, leaves what getState() returns as it was;
\* and a step of the engine leaves the fields of the object the client holds
\* as they were.
C22_SnapshotIsCopiedOut ==
  [][ /\ \A mutation \in Mutations : Mutates(mutation) => getState' = getState
      /\ (snapshot # NoSnapshot
          /\ (state' # state \/ pendingTimers' # pendingTimers \/ now' # now))
           => /\ snapshot' # NoSnapshot
              /\ snapshot'[1].state = snapshot[1].state
    ]_vars

\* The client took the state of the idle engine at offset 0 and assigned to
\* its scrollOffset; the engine has scrolled on since.
C22_Witness ==
  /\ snapshot # NoSnapshot
  /\ snapshot[1].state.scrollOffset = -1
  /\ ~snapshot[1].state.isScrolling
  /\ state.isScrolling
  /\ state.scrollOffset = MaxScrollOffset

\* C32: for every item of the list and every alignment, the range
\* scrollToIndex leaves holds every item whose extent meets the viewport
\* [r, r + containerHeight) at the offset r it returns.
C32_DestinationIsRendered ==
  \A index \in AllIndices \cap Items, align \in Aligns :
    Has(itemPositionCache, index) =>
      LET st == scrollToIndexState(index, align)
          r == scrollToIndexResult(index, align)
      IN \A i \in Items :
           InViewport(i, r) => st.startIndex <= i /\ i <= st.endIndex

\* C33: the scroll-end callback leaves the offset as it is, computes the
\* range there with the overscan of the idle state (overscanCount), notifies
\* the registered callback once, and, with itemCount > 0, the range holds
\* findStartIndex(scrollOffset).
C33_ScrollEndRecomputesWithIdleOverscan ==
  [][ \A timer \in pendingTimers :
        scrollEndTimeout(timer) =>
          LET located == findStartIndex(itemPositionCache, options,
                                        state.scrollOffset)
              visibleItemCount == VisibleLoop(itemPositionCache, options,
                                              state.scrollOffset, located)
          IN /\ state'.scrollOffset = state.scrollOffset
             /\ state'.startIndex = Max(0, located - options.overscanCount)
             /\ state'.endIndex
                  = Min(options.itemCount - 1,
                        located + visibleItemCount + options.overscanCount)
             /\ updateCallback # NoCallback
                  => notified' = << [callback |-> updateCallback,
                                     state |-> state'] >>
             /\ options.itemCount > 0
                  => state'.startIndex <= located /\ located <= state'.endIndex
    ]_vars

\* The options after updateOptions with no overscan at all.
NoOverscan ==
  [NoPartial EXCEPT !.overscanCount = Defined(0), !.minOverscan = Defined(0),
                    !.maxOverscan = Defined(0)]

\* C37: the range holds at most (items meeting the viewport) + 2 *
\* maxOverscan + 1 indices, for the options in force: the current ones, and
\* those after an updateOptions that sets neither itemCount nor itemHeight.
C37_WindowBounded ==
  \A partial \in { p \in Partials \cup {NoOverscan} :
                     ~p.itemCount.def /\ ~p.itemHeight.def } :
    LET opts == ObjectAssign(options, partial)
        meeting == { i \in Items :
                       /\ getItemOffset(itemPositionCache, i)
                            < state.scrollOffset + opts.containerHeight
                       /\ getItemOffset(itemPositionCache, i)
                            + getItemSize(itemPositionCache, i)
                            > state.scrollOffset }
    IN state.endIndex - state.startIndex + 1
         <= Cardinality(meeting) + 2 * opts.maxOverscan + 1

\* C39: the scrollOffset scrollToIndex stores is the offset it returns, and
\* so within [0, max(0, getTotalHeight() - containerHeight)], for every
\* index that has a position and every alignment.
C39_StoredOffsetIsReturnedOffset ==
  \A index \in AllIndices, align \in Aligns :
    Has(itemPositionCache, index) =>
      LET st == scrollToIndexState(index, align)
      IN /\ st.scrollOffset = scrollToIndexResult(index, align)
         /\ st.scrollOffset >= 0
         /\ st.scrollOffset
              <= Max(0, getTotalHeight(options, itemPositionCache)
                          - options.containerHeight)

\* C40: a call of onScroll inside the throttle window, with a position that
\* is 1px or more from the offset held, leaves that position as the one the
\* pending deferred execution will apply: the trailing execution applies the
\* position of the last call of a burst.
C40_TrailingExecutionAppliesLastPosition ==
  [][ \A position \in ScrollPositions :
        LET offset == IF coreOptions.horizontal THEN position.scrollLeft
                                                ELSE position.scrollTop
        IN (/\ Core_onScroll(position)
            /\ throttleLastCallTime # 0
            /\ now - throttleLastCallTime < ThrottleWait
            /\ Abs(offset - coreState.scrollOffset) >= 1)
             => /\ coreTimers' # {}
                /\ \A timer \in coreTimers' : timer.args = position
    ]_vars

\* C31: on the position index the engine holds, for every offset from before
\* the list to past its extent, getVisibleRange returns start =
\* max(0, findStartIndex(offset) - buffer) and end <= size - 1; on a non-empty
\* index 0 <= start <= end, and at an offset at or past the bottom of the
\* list (total height - containerHeight) end is the last index.
C31_VisibleRangeClamped ==
  LET positions == Core_getState.itemPositions
      size == MapSize(positions)
      containerHeight == coreOptions.containerHeight
  IN \A scrollOffset \in -2..(utils_getTotalHeight(positions) + 1),
        buffer \in {coreOptions.buffer, DefaultBuffer} :
       LET range == getVisibleRange(scrollOffset, containerHeight, positions,
                                    buffer)
       IN /\ range.start
               = Max(0, utils_findStartIndex(scrollOffset, positions) - buffer)
          /\ range.end <= size - 1
          /\ size > 0 => 0 <= range.start /\ range.start <= range.end
          /\ (size > 0
              /\ scrollOffset
                   >= Max(0, utils_getTotalHeight(positions) - containerHeight))
               => range.end = size - 1

\* onScroll has taken the engine to the bottom of a list of several items:
\* the range starts one buffer before the last item and ends with it.
C31_Witness ==
  /\ MapSize(Core_getState.itemPositions) = MaxItemCount
  /\ coreOptions.buffer = 1
  /\ Core_getState.scrollOffset > 0
  /\ Core_getState.scrollOffset
       >= Core_getState.totalHeight - coreOptions.containerHeight
  /\ Core_getState.visibleRange.start = MaxItemCount - 2
  /\ Core_getState.visibleRange.end = MaxItemCount - 1

\* clamp(x, lo, hi)
Clamp(x, lo, hi) == Max(lo, Min(hi, x))

\* C34: for the options of the engine, and for the same with a clamp wide
\* enough to let every value through, calculateDynamicOverscan(v) is
\* clamp(r, minOverscan, maxOverscan), r the integer with
\* r - 1/2 <= overscanCount * (1 + min(v / threshold, 3)) < r + 1/2; it is
\* clamp(overscanCount) at velocity 0 and clamp(4 * overscanCount) from
\* velocity 3 * threshold on.
C34_OverscanFormula ==
  \A opts \in { options,
               [options EXCEPT !.minOverscan = 0,
                               !.maxOverscan = 4 * options.overscanCount + 1] } :
    /\ calculateDynamicOverscan(ZeroVelocity, opts)
         = Clamp(opts.overscanCount, opts.minOverscan, opts.maxOverscan)
    /\ \A v \in VelocitySamples(opts) \cup {state.scrollVelocity} :
         LET result == calculateDynamicOverscan(v, opts)
             t == opts.scrollVelocityThreshold
             \* x = xNum / xDen = overscanCount * (1 + min(v / t, 3))
             capped == v.num >= MaxVelocityFactor * t * v.den
             xDen == IF capped THEN 1 ELSE v.den * t
             xNum == IF capped
                       THEN opts.overscanCount * (1 + MaxVelocityFactor)
                       ELSE opts.overscanCount * (v.den * t + v.num)
         IN /\ \E r \in 0..((1 + MaxVelocityFactor) * opts.overscanCount) :
                 /\ (2 * r - 1) * xDen <= 2 * xNum
                 /\ 2 * xNum < (2 * r + 1) * xDen
                 /\ result = Clamp(r, opts.minOverscan, opts.maxOverscan)
            /\ capped =>
                 result = Clamp((1 + MaxVelocityFactor) * opts.overscanCount,
                                opts.minOverscan, opts.maxOverscan)

\* handleScroll has measured a velocity between 0 and the cap at which the
\* overscan, rounded up from a half, lies strictly between the two ends.
C34_Witness ==
  /\ state.isScrolling
  /\ state.scrollVelocity # ZeroVelocity
  /\ state.overscan = calculateDynamicOverscan(state.scrollVelocity, options)
  /\ state.overscan > calculateDynamicOverscan(ZeroVelocity, options)
  /\ state.overscan < options.maxOverscan
  /\ state.overscan > options.minOverscan

\* C38: on an engine that has not been destroyed, isScrolling is true
\* exactly when a scroll-end timer is pending.
C38_ScrollingIffTimerPending ==
  ~destroyed => (state.isScrolling <=> pendingTimers # {})

\* scrollToIndex has run on a scrolling engine, some time after the last
\* handleScroll: still scrolling, the timer still pending.
C38_Witness ==
  /\ ~destroyed
  /\ state.isScrolling
  /\ state.scrollOffset \notin ScrollOffsets
  /\ now > lastScrollTime
  /\ \E timer \in pendingTimers :
       timer.id = scrollEndTimer /\ timer.deadline <= now

\* The partial that sets itemCount to the value it has: updateOptions
\* recalculates and the options stay as they are (a partial that sets
\* itemHeight to the value it has makes the same step).
SameCount(opts) == [NoPartial EXCEPT !.itemCount = Defined(opts.itemCount)]

\* C35: updateOptions leaves isScrolling, scrollOffset and scrollVelocity as
\* they are, and the scroll-end timer and its handle; when it changes neither
\* itemCount nor itemHeight it leaves every position as it is.  The steps of
\* updateOptions are those that change the options, and those of a partial
\* that sets itemCount or itemHeight to the value it has.
C35_UpdateOptionsKeepsScrollState ==
  [][ ( \/ options' # options
        \/ /\ state' # state
           /\ now' = now /\ lastScrollTime' = lastScrollTime
           /\ updateOptions(SameCount(options)) )
        => /\ state'.isScrolling = state.isScrolling
           /\ state'.scrollOffset = state.scrollOffset
           /\ state'.scrollVelocity = state.scrollVelocity
           /\ pendingTimers' = pendingTimers
           /\ scrollEndTimer' = scrollEndTimer
           /\ (options'.itemCount = options.itemCount
               /\ options'.itemHeight = options.itemHeight
               /\ options' # options)
                => itemPositionCache' = itemPositionCache
    ]_vars

\* updateOptions has shortened the list under a scrolling engine whose timer
\* is pending: the range ends with the new last item, short of the offset.
C35_Witness ==
  /\ options.itemCount > 0
  /\ options.itemCount < MapSize(itemPositionCache)
  /\ state.isScrolling
  /\ state.scrollVelocity # ZeroVelocity
  /\ state.scrollOffset = MaxScrollOffset
  /\ \E timer \in pendingTimers : timer.id = scrollEndTimer
  /\ state.endIndex = options.itemCount - 1
  /\ state = updateVisibleRange(state, options, itemPositionCache)

\* C36: when the callback, notified by handleScroll(offset), calls
\* scrollToIndex on an index that has a position, the callback has been
\* invoked twice, one scroll-end timer is pending, and the state is the one
\* scrollToIndex pre-expanded, its range within the list: 0 <= startIndex,
\* endIndex < itemCount, and startIndex <= endIndex when itemCount > 0.
C36_ReentrantScrollToIndex ==
  updateCallback # NoCallback =>
    \A scrollOffset \in ScrollOffsets,
       index \in AllIndices \cap DOMAIN itemPositionCache, align \in Aligns :
      LET final == reentrantState(scrollOffset, index, align)
      IN /\ Len(reentrantNotified(scrollOffset, index, align)) = 2
         /\ Cardinality(reentrantTimers(scrollOffset, index, align)) = 1
         /\ final.isScrolling
         /\ final.scrollOffset
              = TargetOffset(itemPositionCache[index], align, options)
         /\ final.startIndex = Max(0, index - options.maxOverscan)
         /\ final.startIndex >= 0
         /\ final.endIndex < options.itemCount
         /\ options.itemCount > 0 => final.startIndex <= final.endIndex

====
